---- MODULE Spec2Model ----
(***************************************************************************)
(* The gps303 protocol codec (gps303proto.py) and its event store          *)
(* (evstore.py) as a state machine.                                        *)
(*                                                                         *)
(* Python values are represented as follows.                               *)
(*   bytes          a sequence of integers 0..255                          *)
(*   str            a sequence of code points                              *)
(*   a raised       [kind |-> "raise", exc |-> <exception class name>]     *)
(*   exception                                                             *)
(*   a keyword      a tagged value: PyInt(n), PyStr(s), PyFloat(d),        *)
(*   argument       PyNone, PyList(<<...>>)                                *)
(*   a float        a decimal [neg, digs, exp] = (-1)^neg * digs * 10^exp  *)
(***************************************************************************)
EXTENDS Integers, Sequences, FiniteSets, TLC

VARIABLES
    CLASSES,    \* gps303proto.CLASSES: proto number -> class name
    PROTOS,     \* gps303proto.PROTOS: class name -> proto number
    clsPROTO,   \* the PROTO class attribute of every declared class
    DB,         \* evstore.DB: "None" or "open"
    events,     \* the rows of the table `events`, in insertion order
    op,         \* the call in progress ("idle" between calls)
    args,       \* its arguments
    ret         \* what it returned or raised

vars == <<CLASSES, PROTOS, clsPROTO, DB, events, op, args, ret>>

(***************************************************************************)
(* Bounds of the model.                                                    *)
(***************************************************************************)
MaxSmallPayload == 2   \* longest payload enumerated over SampleBytes
MaxKwargs == 2         \* most keyword arguments given to one constructor
MaxRows == 3           \* most rows the events table is let grow to

(***************************************************************************)
(* Generic helpers.                                                        *)
(***************************************************************************)
Min(a, b) == IF a < b THEN a ELSE b
Max(a, b) == IF a > b THEN a ELSE b

\* Python slice s[a:b] with 0 <= a, 0 <= b (0-based, end exclusive).
Slice(s, a, b) ==
    LET lo == Min(a, Len(s))
        hi == Min(b, Len(s))
    IN  IF hi <= lo THEN <<>> ELSE SubSeq(s, lo + 1, hi)

\* Python slice s[a:]
SliceFrom(s, a) == Slice(s, a, Len(s))

RECURSIVE Pow(_, _)
Pow(b, n) == IF n = 0 THEN 1 ELSE b * Pow(b, n - 1)

\* The concatenation of a sequence of sequences (by halves).
RECURSIVE Concat(_)
Concat(ss) ==
    IF ss = <<>> THEN <<>>
    ELSE IF Len(ss) = 1 THEN ss[1]
    ELSE LET h == Len(ss) \div 2
         IN  Concat(SubSeq(ss, 1, h)) \o Concat(SubSeq(ss, h + 1, Len(ss)))

RECURSIVE SeqsUpTo(_, _)
SeqsUpTo(S, n) ==
    IF n = 0 THEN {<<>>}
    ELSE LET shorter == SeqsUpTo(S, n - 1)
         IN  shorter \cup {Append(s, b) : s \in {t \in shorter : Len(t) = n - 1}, b \in S}

Raise(e) == [kind |-> "raise", exc |-> e]
IsRaise(r) == r.kind = "raise"

(***************************************************************************)
(* Tagged Python values (keyword arguments and constructed attributes).    *)
(***************************************************************************)
PyInt(n) == [t |-> "int", v |-> n]
PyStr(s) == [t |-> "str", v |-> s]
PyFloat(d) == [t |-> "float", v |-> d]
PyList(l) == [t |-> "list", v |-> l]
PyNone == [t |-> "None", v |-> 0]
Dec(neg, digs, exp) == [neg |-> neg, digs |-> digs, exp |-> exp]

IsDigit(c) == c >= 48 /\ c <= 57
\* str.isspace() for the ASCII range
IsSpace(c) == c \in {9, 10, 11, 12, 13, 28, 29, 30, 31, 32}

RECURSIVE LStrip(_)
LStrip(s) == IF s # <<>> /\ IsSpace(Head(s)) THEN LStrip(Tail(s)) ELSE s
RECURSIVE RStrip(_)
RStrip(s) ==
    IF s # <<>> /\ IsSpace(s[Len(s)]) THEN RStrip(SubSeq(s, 1, Len(s) - 1)) ELSE s
Strip(s) == RStrip(LStrip(s))

RECURSIVE NatDigits(_)
NatDigits(n) == IF n < 10 THEN <<48 + n>> ELSE Append(NatDigits(n \div 10), 48 + (n % 10))
\* str(n) for an int
IntStr(n) == IF n < 0 THEN <<45>> \o NatDigits(-n) ELSE NatDigits(n)

(***************************************************************************)
(* Python's built-in conversions, as far as the codec uses them.           *)
(* A conversion yields Val(v) or Raise(exception).                         *)
(***************************************************************************)
Val(v) == [kind |-> "val", v |-> v]

\* The value of a digit character in any base (0-9, a-z, A-Z), or 99.
DigitVal(c) ==
    IF IsDigit(c) THEN c - 48
    ELSE IF c >= 97 /\ c <= 122 THEN c - 87
    ELSE IF c >= 65 /\ c <= 90 THEN c - 55
    ELSE 99

\* Digits of base b, single underscores allowed between digits only.
DigitsOk(s, b) ==
    /\ s # <<>>
    /\ DigitVal(s[1]) < b
    /\ DigitVal(s[Len(s)]) < b
    /\ \A i \in 1..Len(s) : DigitVal(s[i]) < b \/ s[i] = 95
    /\ \A i \in 1..(Len(s) - 1) : ~(s[i] = 95 /\ s[i + 1] = 95)

RECURSIVE DigitsValue(_, _, _)
DigitsValue(s, b, acc) ==
    IF s = <<>> THEN acc
    ELSE IF Head(s) = 95 THEN DigitsValue(Tail(s), b, acc)
    ELSE DigitsValue(Tail(s), b, acc * b + DigitVal(Head(s)))

\* int(s) for a str s, base 10: surrounding whitespace, one optional sign,
\* then digits.  Yields [ok, v].
IntParse(s) ==
    LET Signed(t) == t # <<>> /\ t[1] \in {43, 45}
        Digits(neg, body) ==
            IF DigitsOk(body, 10)
            THEN [ok |-> TRUE,
                  v |-> IF neg THEN 0 - DigitsValue(body, 10, 0)
                        ELSE DigitsValue(body, 10, 0)]
            ELSE [ok |-> FALSE, v |-> 0]
        Stripped(t) == Digits(Signed(t) /\ t[1] = 45, IF Signed(t) THEN Tail(t) ELSE t)
    IN  Stripped(Strip(s))

\* int(s, 0): the base is taken from the literal's prefix; a decimal literal
\* other than zero has no leading zero.
IntParse0(s) ==
    LET Signed(t) == t # <<>> /\ t[1] \in {43, 45}
        Base(pfx) == IF pfx \in {120, 88} THEN 16
                     ELSE IF pfx \in {111, 79} THEN 8
                     ELSE IF pfx \in {98, 66} THEN 2
                     ELSE 10
        Digits(neg, base, rest) ==
            IF /\ DigitsOk(rest, base)
               /\ (base = 10 /\ rest[1] = 48) => DigitsValue(rest, 10, 0) = 0
            THEN [ok |-> TRUE,
                  v |-> IF neg THEN 0 - DigitsValue(rest, base, 0)
                        ELSE DigitsValue(rest, base, 0)]
            ELSE [ok |-> FALSE, v |-> 0]
        \* one underscore may follow the prefix
        AfterPrefix(neg, base, rest0) ==
            Digits(neg, base,
                   IF base # 10 /\ rest0 # <<>> /\ rest0[1] = 95 THEN Tail(rest0) ELSE rest0)
        Based(neg, body, base) ==
            AfterPrefix(neg, base, IF base = 10 THEN body ELSE SliceFrom(body, 2))
        Unsigned(neg, body) ==
            Based(neg, body, Base(IF Len(body) >= 2 /\ body[1] = 48 THEN body[2] ELSE 0))
        Stripped(t) == Unsigned(Signed(t) /\ t[1] = 45, IF Signed(t) THEN Tail(t) ELSE t)
    IN  Stripped(Strip(s))

\* A float literal: [sign] digits [. digits] [e [sign] digits], or . digits.
\* (inf, nan and underscores are not covered: no input of the model has them.)
FloatParse(s) ==
    LET Signed(t) == t # <<>> /\ t[1] \in {43, 45}
        AllDigits(d) == \A i \in 1..Len(d) : IsDigit(d[i])
        Parts(neg, ipart, fpart, one_dot, eok, eval) ==
            IF /\ one_dot
               /\ Len(ipart) + Len(fpart) >= 1
               /\ AllDigits(ipart)
               /\ AllDigits(fpart)
               /\ eok
            THEN [ok |-> TRUE,
                  v |-> Dec(neg, DigitsValue(ipart \o fpart, 10, 0), eval - Len(fpart))]
            ELSE [ok |-> FALSE, v |-> Dec(FALSE, 0, 0)]
        Dotted(neg, mant, dots, dot, eok, eval) ==
            Parts(neg, SubSeq(mant, 1, dot - 1), SubSeq(mant, dot + 1, Len(mant)),
                  Cardinality(dots) <= 1, eok, eval)
        Dots(neg, mant, dots, eok, eval) ==
            Dotted(neg, mant, dots,
                   IF dots = {} THEN Len(mant) + 1 ELSE CHOOSE i \in dots : TRUE,
                   eok, eval)
        Mantissa(neg, mant, eok, eval) ==
            Dots(neg, mant, {i \in 1..Len(mant) : mant[i] = 46}, eok, eval)
        ExpDigits(neg, mant, has_e, eneg, edigs) ==
            Mantissa(neg, mant,
                     ~has_e \/ (edigs # <<>> /\ AllDigits(edigs)),
                     IF ~has_e \/ edigs = <<>> \/ ~AllDigits(edigs) THEN 0
                     ELSE IF eneg THEN 0 - DigitsValue(edigs, 10, 0)
                     ELSE DigitsValue(edigs, 10, 0))
        Exponent(neg, mant, has_e, expo) ==
            ExpDigits(neg, mant, has_e, Signed(expo) /\ expo[1] = 45,
                      IF Signed(expo) THEN Tail(expo) ELSE expo)
        \* epos: the index of the first e or E, or 0
        SplitAt(neg, body, epos) ==
            Exponent(neg,
                     IF epos = 0 THEN body ELSE SubSeq(body, 1, epos - 1),
                     epos # 0,
                     IF epos = 0 THEN <<>> ELSE SubSeq(body, epos + 1, Len(body)))
        Unsigned(neg, body) ==
            SplitAt(neg, body,
                    IF \E i \in 1..Len(body) : body[i] \in {101, 69}
                    THEN CHOOSE i \in 1..Len(body) :
                           /\ body[i] \in {101, 69}
                           /\ \A j \in 1..(i - 1) : body[j] \notin {101, 69}
                    ELSE 0)
        Stripped(t) == Unsigned(Signed(t) /\ t[1] = 45, IF Signed(t) THEN Tail(t) ELSE t)
    IN  Stripped(Strip(s))

\* s.split(sep) for a one-character separator
RECURSIVE Split(_, _)
Split(s, sep) ==
    LET At(k) == <<SubSeq(s, 1, k - 1)>> \o Split(SubSeq(s, k + 1, Len(s)), sep)
    IN  IF \E i \in 1..Len(s) : s[i] = sep
        THEN At(CHOOSE i \in 1..Len(s) : s[i] = sep /\ \A j \in 1..(i - 1) : s[j] # sep)
        ELSE <<s>>

\* The result [ok, v] of parsing a number, as the result of the conversion.
Parsed(p, tag) ==
    IF p.ok THEN Val([t |-> tag, v |-> p.v]) ELSE Raise("ValueError")

\* int(x)
int(x) ==
    LET Trunc(d, mag) == Val(PyInt(IF d.neg THEN 0 - mag ELSE mag))
    IN  CASE x.t = "int" -> Val(x)
          [] x.t = "str" -> Parsed(IntParse(x.v), "int")
          [] x.t = "float" -> Trunc(x.v, IF x.v.exp >= 0 THEN x.v.digs * Pow(10, x.v.exp)
                                         ELSE x.v.digs \div Pow(10, 0 - x.v.exp))
          [] OTHER -> Raise("TypeError")

\* str(x), for the argument types the model passes: int, str and None.
str(x) ==
    CASE x.t = "int" -> Val(PyStr(IntStr(x.v)))
      [] x.t = "str" -> Val(x)
      [] x.t = "None" -> Val(PyStr(<<78, 111, 110, 101>>))

\* float(x)
float(x) ==
    CASE x.t = "float" -> Val(x)
      [] x.t = "int" -> Val(PyFloat(Dec(x.v < 0, IF x.v < 0 THEN 0 - x.v ELSE x.v, 0)))
      [] x.t = "str" -> Parsed(FloatParse(x.v), "float")
      [] OTHER -> Raise("TypeError")

intx(x) ==
    IF x.t = "str" THEN Parsed(IntParse0(x.v), "int") ELSE Val(x)

hhmm(x) ==
    LET Check(hh, mm) ==
            IF ~hh.ok \/ ~mm.ok THEN Raise("ValueError")
            ELSE IF hh.v < 0 \/ hh.v > 23 \/ mm.v < 0 \/ mm.v > 59
                 THEN Raise("ValueError")
                 ELSE Val(x)
    IN  IF x.t # "str" \/ Len(x.v) # 4 THEN Raise("ValueError")
        ELSE Check(IntParse(SubSeq(x.v, 1, 2)), IntParse(SubSeq(x.v, 3, 4)))

\* The check of l3str and l3int on the list y: three elements, each of type el.
ListOfThree(y, el) ==
    IF y.t # "list" THEN Raise("TypeError")   \* len() of a non-sequence
    ELSE IF Len(y.v) # 3 \/ \E i \in 1..Len(y.v) : y.v[i].t # el
         THEN Raise("ValueError")
         ELSE Val(y)

l3str(x) ==
    LET Strs(parts) == PyList([i \in 1..Len(parts) |-> PyStr(parts[i])])
    IN  ListOfThree(IF x.t = "str" THEN Strs(Split(x.v, 44)) ELSE x, "str")

l3int(x) ==
    LET Ints(ps) ==
            IF \E i \in 1..Len(ps) : ~ps[i].ok THEN Raise("ValueError")
            ELSE ListOfThree(PyList([i \in 1..Len(ps) |-> PyInt(ps[i].v)]), "int")
        Parts(parts) == Ints([i \in 1..Len(parts) |-> IntParse(parts[i])])
    IN  IF x.t = "str" THEN Parts(Split(x.v, 44)) ELSE ListOfThree(x, "int")

\* The coercion named in a KWARGS triple.
Coerce(typ, x) ==
    CASE typ = "int" -> int(x)
      [] typ = "str" -> str(x)
      [] typ = "float" -> float(x)
      [] typ = "intx" -> intx(x)
      [] typ = "hhmm" -> hhmm(x)
      [] typ = "l3int" -> l3int(x)
      [] typ = "l3str" -> l3str(x)

(***************************************************************************)
(* The message classes as declared, in order of definition.  For each      *)
(* class: its base, and what its body defines: PROTO, RESPOND, IN_KWARGS   *)
(* and OUT_KWARGS (<<>> when the body leaves the attribute out, <<v>> when *)
(* it sets it to v) and the names of the methods the body defines.         *)
(* A KWARGS entry is <<name, coercion, default>>.                          *)
(***************************************************************************)
Declared == <<
    [name |-> "GPS303Pkt", base |-> "object",
     PROTO |-> <<>>, RESPOND |-> <<"NON">>,
     IN_KWARGS |-> <<<<>>>>,
     OUT_KWARGS |-> <<<<>>>>,
     methods |-> {"in_decode", "out_decode", "in_encode", "out_encode"}],
    [name |-> "UNKNOWN", base |-> "GPS303Pkt",
     PROTO |-> <<256>>, RESPOND |-> <<>>,
     IN_KWARGS |-> <<>>,
     OUT_KWARGS |-> <<>>,
     methods |-> {}],
    [name |-> "LOGIN", base |-> "GPS303Pkt",
     PROTO |-> <<1>>, RESPOND |-> <<"INL">>,
     IN_KWARGS |-> <<>>,
     OUT_KWARGS |-> <<>>,
     methods |-> {"in_decode"}],
    [name |-> "SUPERVISION", base |-> "GPS303Pkt",
     PROTO |-> <<5>>, RESPOND |-> <<>>,
     IN_KWARGS |-> <<>>,
     OUT_KWARGS |-> <<<<<<"status", "int", PyInt(1)>>>>>>,
     methods |-> {"out_encode"}],
    [name |-> "HEARTBEAT", base |-> "GPS303Pkt",
     PROTO |-> <<8>>, RESPOND |-> <<"INL">>,
     IN_KWARGS |-> <<>>,
     OUT_KWARGS |-> <<>>,
     methods |-> {}],
    [name |-> "_GPS_POSITIONING", base |-> "GPS303Pkt",
     PROTO |-> <<>>, RESPOND |-> <<"INL">>,
     IN_KWARGS |-> <<>>,
     OUT_KWARGS |-> <<>>,
     methods |-> {"in_decode", "out_encode"}],
    [name |-> "GPS_POSITIONING", base |-> "_GPS_POSITIONING",
     PROTO |-> <<16>>, RESPOND |-> <<>>,
     IN_KWARGS |-> <<>>,
     OUT_KWARGS |-> <<>>,
     methods |-> {}],
    [name |-> "GPS_OFFLINE_POSITIONING", base |-> "_GPS_POSITIONING",
     PROTO |-> <<17>>, RESPOND |-> <<>>,
     IN_KWARGS |-> <<>>,
     OUT_KWARGS |-> <<>>,
     methods |-> {}],
    [name |-> "STATUS", base |-> "GPS303Pkt",
     PROTO |-> <<19>>, RESPOND |-> <<"EXT">>,
     IN_KWARGS |-> <<>>,
     OUT_KWARGS |-> <<<<<<"upload_interval", "int", PyInt(25)>>>>>>,
     methods |-> {"in_decode", "out_encode"}],
    [name |-> "HIBERNATION", base |-> "GPS303Pkt",
     PROTO |-> <<20>>, RESPOND |-> <<>>,
     IN_KWARGS |-> <<>>,
     OUT_KWARGS |-> <<>>,
     methods |-> {}],
    [name |-> "RESET", base |-> "GPS303Pkt",
     PROTO |-> <<21>>, RESPOND |-> <<>>,
     IN_KWARGS |-> <<>>,
     OUT_KWARGS |-> <<>>,
     methods |-> {}],
    [name |-> "WHITELIST_TOTAL", base |-> "GPS303Pkt",
     PROTO |-> <<22>>, RESPOND |-> <<>>,
     IN_KWARGS |-> <<>>,
     OUT_KWARGS |-> <<<<<<"number", "int", PyInt(3)>>>>>>,
     methods |-> {"out_encode"}],
    [name |-> "_WIFI_POSITIONING", base |-> "GPS303Pkt",
     PROTO |-> <<>>, RESPOND |-> <<>>,
     IN_KWARGS |-> <<>>,
     OUT_KWARGS |-> <<>>,
     methods |-> {"in_decode"}],
    [name |-> "WIFI_OFFLINE_POSITIONING", base |-> "_WIFI_POSITIONING",
     PROTO |-> <<23>>, RESPOND |-> <<"INL">>,
     IN_KWARGS |-> <<>>,
     OUT_KWARGS |-> <<>>,
     methods |-> {"out_encode"}],
    [name |-> "TIME", base |-> "GPS303Pkt",
     PROTO |-> <<48>>, RESPOND |-> <<"INL">>,
     IN_KWARGS |-> <<>>,
     OUT_KWARGS |-> <<>>,
     methods |-> {"out_encode"}],
    [name |-> "PROHIBIT_LBS", base |-> "GPS303Pkt",
     PROTO |-> <<51>>, RESPOND |-> <<>>,
     IN_KWARGS |-> <<>>,
     OUT_KWARGS |-> <<<<<<"status", "int", PyInt(1)>>>>>>,
     methods |-> {"out_encode"}],
    [name |-> "GPS_LBS_SWITCH_TIMES", base |-> "GPS303Pkt",
     PROTO |-> <<52>>, RESPOND |-> <<>>,
     IN_KWARGS |-> <<>>,
     OUT_KWARGS |-> <<>>,
     methods |-> {"out_encode"}],
    [name |-> "_SET_PHONE", base |-> "GPS303Pkt",
     PROTO |-> <<>>, RESPOND |-> <<>>,
     IN_KWARGS |-> <<>>,
     OUT_KWARGS |-> <<<<<<"phone", "str", PyStr(<<>>)>>>>>>,
     methods |-> {"out_encode"}],
    [name |-> "REMOTE_MONITOR_PHONE", base |-> "_SET_PHONE",
     PROTO |-> <<64>>, RESPOND |-> <<>>,
     IN_KWARGS |-> <<>>,
     OUT_KWARGS |-> <<>>,
     methods |-> {}],
    [name |-> "SOS_PHONE", base |-> "_SET_PHONE",
     PROTO |-> <<65>>, RESPOND |-> <<>>,
     IN_KWARGS |-> <<>>,
     OUT_KWARGS |-> <<>>,
     methods |-> {}],
    [name |-> "DAD_PHONE", base |-> "_SET_PHONE",
     PROTO |-> <<66>>, RESPOND |-> <<>>,
     IN_KWARGS |-> <<>>,
     OUT_KWARGS |-> <<>>,
     methods |-> {}],
    [name |-> "MOM_PHONE", base |-> "_SET_PHONE",
     PROTO |-> <<67>>, RESPOND |-> <<>>,
     IN_KWARGS |-> <<>>,
     OUT_KWARGS |-> <<>>,
     methods |-> {}],
    [name |-> "STOP_UPLOAD", base |-> "GPS303Pkt",
     PROTO |-> <<68>>, RESPOND |-> <<>>,
     IN_KWARGS |-> <<>>,
     OUT_KWARGS |-> <<>>,
     methods |-> {}],
    [name |-> "GPS_OFF_PERIOD", base |-> "GPS303Pkt",
     PROTO |-> <<70>>, RESPOND |-> <<>>,
     IN_KWARGS |-> <<>>,
     OUT_KWARGS |-> <<<<<<"onoff", "int", PyInt(0)>>, <<"fm", "hhmm", PyStr(<<48, 48, 48, 48>>)>>, <<"to", "hhmm", PyStr(<<50, 51, 53, 57>>)>>>>>>,
     methods |-> {"out_encode"}],
    [name |-> "DND_PERIOD", base |-> "GPS303Pkt",
     PROTO |-> <<71>>, RESPOND |-> <<>>,
     IN_KWARGS |-> <<>>,
     OUT_KWARGS |-> <<<<<<"onoff", "int", PyInt(0)>>, <<"week", "int", PyInt(3)>>, <<"fm1", "hhmm", PyStr(<<48, 48, 48, 48>>)>>, <<"to1", "hhmm", PyStr(<<50, 51, 53, 57>>)>>, <<"fm2", "hhmm", PyStr(<<48, 48, 48, 48>>)>>, <<"to2", "hhmm", PyStr(<<50, 51, 53, 57>>)>>>>>>,
     methods |-> {}],
    [name |-> "RESTART_SHUTDOWN", base |-> "GPS303Pkt",
     PROTO |-> <<72>>, RESPOND |-> <<>>,
     IN_KWARGS |-> <<>>,
     OUT_KWARGS |-> <<<<<<"flag", "int", PyInt(0)>>>>>>,
     methods |-> {"out_encode"}],
    [name |-> "DEVICE", base |-> "GPS303Pkt",
     PROTO |-> <<73>>, RESPOND |-> <<>>,
     IN_KWARGS |-> <<>>,
     OUT_KWARGS |-> <<<<<<"flag", "int", PyInt(0)>>>>>>,
     methods |-> {"out_encode"}],
    [name |-> "ALARM_CLOCK", base |-> "GPS303Pkt",
     PROTO |-> <<80>>, RESPOND |-> <<>>,
     IN_KWARGS |-> <<>>,
     OUT_KWARGS |-> <<>>,
     methods |-> {"out_encode"}],
    [name |-> "STOP_ALARM", base |-> "GPS303Pkt",
     PROTO |-> <<86>>, RESPOND |-> <<>>,
     IN_KWARGS |-> <<>>,
     OUT_KWARGS |-> <<>>,
     methods |-> {"in_decode"}],
    [name |-> "SETUP", base |-> "GPS303Pkt",
     PROTO |-> <<87>>, RESPOND |-> <<"EXT">>,
     IN_KWARGS |-> <<>>,
     OUT_KWARGS |-> <<<<<<"uploadintervalseconds", "intx", PyInt(768)>>, <<"binaryswitch", "intx", PyInt(49)>>, <<"alarms", "l3int", PyList(<<PyInt(0), PyInt(0), PyInt(0)>>)>>, <<"dndtimeswitch", "int", PyInt(0)>>, <<"dndtimes", "l3int", PyList(<<PyInt(0), PyInt(0), PyInt(0)>>)>>, <<"gpstimeswitch", "int", PyInt(0)>>, <<"gpstimestart", "int", PyInt(0)>>, <<"gpstimestop", "int", PyInt(0)>>, <<"phonenumbers", "l3str", PyList(<<PyStr(<<>>), PyStr(<<>>), PyStr(<<>>)>>)>>>>>>,
     methods |-> {"out_encode"}],
    [name |-> "SYNCHRONOUS_WHITELIST", base |-> "GPS303Pkt",
     PROTO |-> <<88>>, RESPOND |-> <<>>,
     IN_KWARGS |-> <<>>,
     OUT_KWARGS |-> <<>>,
     methods |-> {}],
    [name |-> "RESTORE_PASSWORD", base |-> "GPS303Pkt",
     PROTO |-> <<103>>, RESPOND |-> <<>>,
     IN_KWARGS |-> <<>>,
     OUT_KWARGS |-> <<>>,
     methods |-> {}],
    [name |-> "WIFI_POSITIONING", base |-> "_WIFI_POSITIONING",
     PROTO |-> <<105>>, RESPOND |-> <<"EXT">>,
     IN_KWARGS |-> <<>>,
     OUT_KWARGS |-> <<<<<<"latitude", "float", PyNone>>, <<"longitude", "float", PyNone>>>>>>,
     methods |-> {"out_encode", "out_decode"}],
    [name |-> "MANUAL_POSITIONING", base |-> "GPS303Pkt",
     PROTO |-> <<128>>, RESPOND |-> <<>>,
     IN_KWARGS |-> <<>>,
     OUT_KWARGS |-> <<>>,
     methods |-> {"in_decode"}],
    [name |-> "BATTERY_CHARGE", base |-> "GPS303Pkt",
     PROTO |-> <<129>>, RESPOND |-> <<>>,
     IN_KWARGS |-> <<>>,
     OUT_KWARGS |-> <<>>,
     methods |-> {}],
    [name |-> "CHARGER_CONNECTED", base |-> "GPS303Pkt",
     PROTO |-> <<130>>, RESPOND |-> <<>>,
     IN_KWARGS |-> <<>>,
     OUT_KWARGS |-> <<>>,
     methods |-> {}],
    [name |-> "CHARGER_DISCONNECTED", base |-> "GPS303Pkt",
     PROTO |-> <<131>>, RESPOND |-> <<>>,
     IN_KWARGS |-> <<>>,
     OUT_KWARGS |-> <<>>,
     methods |-> {}],
    [name |-> "VIBRATION_RECEIVED", base |-> "GPS303Pkt",
     PROTO |-> <<148>>, RESPOND |-> <<>>,
     IN_KWARGS |-> <<>>,
     OUT_KWARGS |-> <<>>,
     methods |-> {}],
    [name |-> "POSITION_UPLOAD_INTERVAL", base |-> "GPS303Pkt",
     PROTO |-> <<152>>, RESPOND |-> <<"EXT">>,
     IN_KWARGS |-> <<>>,
     OUT_KWARGS |-> <<<<<<"interval", "int", PyInt(10)>>>>>>,
     methods |-> {"in_decode", "out_encode"}],
    [name |-> "SOS_ALARM", base |-> "GPS303Pkt",
     PROTO |-> <<153>>, RESPOND |-> <<>>,
     IN_KWARGS |-> <<>>,
     OUT_KWARGS |-> <<>>,
     methods |-> {}],
    [name |-> "UNKNOWN_B3", base |-> "GPS303Pkt",
     PROTO |-> <<179>>, RESPOND |-> <<>>,
     IN_KWARGS |-> <<<<<<"asciidata", "str", PyStr(<<>>)>>>>>>,
     OUT_KWARGS |-> <<>>,
     methods |-> {"in_decode"}]
>>

\* The class names spelled as str values.
NameChars(c) ==
    CASE c = "GPS303Pkt" -> <<71, 80, 83, 51, 48, 51, 80, 107, 116>>
      [] c = "UNKNOWN" -> <<85, 78, 75, 78, 79, 87, 78>>
      [] c = "LOGIN" -> <<76, 79, 71, 73, 78>>
      [] c = "SUPERVISION" -> <<83, 85, 80, 69, 82, 86, 73, 83, 73, 79, 78>>
      [] c = "HEARTBEAT" -> <<72, 69, 65, 82, 84, 66, 69, 65, 84>>
      [] c = "_GPS_POSITIONING" -> <<95, 71, 80, 83, 95, 80, 79, 83, 73, 84, 73, 79, 78, 73, 78, 71>>
      [] c = "GPS_POSITIONING" -> <<71, 80, 83, 95, 80, 79, 83, 73, 84, 73, 79, 78, 73, 78, 71>>
      [] c = "GPS_OFFLINE_POSITIONING" -> <<71, 80, 83, 95, 79, 70, 70, 76, 73, 78, 69, 95, 80, 79, 83, 73, 84, 73, 79, 78, 73, 78, 71>>
      [] c = "STATUS" -> <<83, 84, 65, 84, 85, 83>>
      [] c = "HIBERNATION" -> <<72, 73, 66, 69, 82, 78, 65, 84, 73, 79, 78>>
      [] c = "RESET" -> <<82, 69, 83, 69, 84>>
      [] c = "WHITELIST_TOTAL" -> <<87, 72, 73, 84, 69, 76, 73, 83, 84, 95, 84, 79, 84, 65, 76>>
      [] c = "_WIFI_POSITIONING" -> <<95, 87, 73, 70, 73, 95, 80, 79, 83, 73, 84, 73, 79, 78, 73, 78, 71>>
      [] c = "WIFI_OFFLINE_POSITIONING" -> <<87, 73, 70, 73, 95, 79, 70, 70, 76, 73, 78, 69, 95, 80, 79, 83, 73, 84, 73, 79, 78, 73, 78, 71>>
      [] c = "TIME" -> <<84, 73, 77, 69>>
      [] c = "PROHIBIT_LBS" -> <<80, 82, 79, 72, 73, 66, 73, 84, 95, 76, 66, 83>>
      [] c = "GPS_LBS_SWITCH_TIMES" -> <<71, 80, 83, 95, 76, 66, 83, 95, 83, 87, 73, 84, 67, 72, 95, 84, 73, 77, 69, 83>>
      [] c = "_SET_PHONE" -> <<95, 83, 69, 84, 95, 80, 72, 79, 78, 69>>
      [] c = "REMOTE_MONITOR_PHONE" -> <<82, 69, 77, 79, 84, 69, 95, 77, 79, 78, 73, 84, 79, 82, 95, 80, 72, 79, 78, 69>>
      [] c = "SOS_PHONE" -> <<83, 79, 83, 95, 80, 72, 79, 78, 69>>
      [] c = "DAD_PHONE" -> <<68, 65, 68, 95, 80, 72, 79, 78, 69>>
      [] c = "MOM_PHONE" -> <<77, 79, 77, 95, 80, 72, 79, 78, 69>>
      [] c = "STOP_UPLOAD" -> <<83, 84, 79, 80, 95, 85, 80, 76, 79, 65, 68>>
      [] c = "GPS_OFF_PERIOD" -> <<71, 80, 83, 95, 79, 70, 70, 95, 80, 69, 82, 73, 79, 68>>
      [] c = "DND_PERIOD" -> <<68, 78, 68, 95, 80, 69, 82, 73, 79, 68>>
      [] c = "RESTART_SHUTDOWN" -> <<82, 69, 83, 84, 65, 82, 84, 95, 83, 72, 85, 84, 68, 79, 87, 78>>
      [] c = "DEVICE" -> <<68, 69, 86, 73, 67, 69>>
      [] c = "ALARM_CLOCK" -> <<65, 76, 65, 82, 77, 95, 67, 76, 79, 67, 75>>
      [] c = "STOP_ALARM" -> <<83, 84, 79, 80, 95, 65, 76, 65, 82, 77>>
      [] c = "SETUP" -> <<83, 69, 84, 85, 80>>
      [] c = "SYNCHRONOUS_WHITELIST" -> <<83, 89, 78, 67, 72, 82, 79, 78, 79, 85, 83, 95, 87, 72, 73, 84, 69, 76, 73, 83, 84>>
      [] c = "RESTORE_PASSWORD" -> <<82, 69, 83, 84, 79, 82, 69, 95, 80, 65, 83, 83, 87, 79, 82, 68>>
      [] c = "WIFI_POSITIONING" -> <<87, 73, 70, 73, 95, 80, 79, 83, 73, 84, 73, 79, 78, 73, 78, 71>>
      [] c = "MANUAL_POSITIONING" -> <<77, 65, 78, 85, 65, 76, 95, 80, 79, 83, 73, 84, 73, 79, 78, 73, 78, 71>>
      [] c = "BATTERY_CHARGE" -> <<66, 65, 84, 84, 69, 82, 89, 95, 67, 72, 65, 82, 71, 69>>
      [] c = "CHARGER_CONNECTED" -> <<67, 72, 65, 82, 71, 69, 82, 95, 67, 79, 78, 78, 69, 67, 84, 69, 68>>
      [] c = "CHARGER_DISCONNECTED" -> <<67, 72, 65, 82, 71, 69, 82, 95, 68, 73, 83, 67, 79, 78, 78, 69, 67, 84, 69, 68>>
      [] c = "VIBRATION_RECEIVED" -> <<86, 73, 66, 82, 65, 84, 73, 79, 78, 95, 82, 69, 67, 69, 73, 86, 69, 68>>
      [] c = "POSITION_UPLOAD_INTERVAL" -> <<80, 79, 83, 73, 84, 73, 79, 78, 95, 85, 80, 76, 79, 65, 68, 95, 73, 78, 84, 69, 82, 86, 65, 76>>
      [] c = "SOS_ALARM" -> <<83, 79, 83, 95, 65, 76, 65, 82, 77>>
      [] c = "UNKNOWN_B3" -> <<85, 78, 75, 78, 79, 87, 78, 95, 66, 51>>

NamesOf(ds) == [i \in 1..Len(ds) |-> ds[i].name]
\* The declared classes in order of definition, and as a set.
ClassSeq == NamesOf(Declared)
ClassNames == {ClassSeq[i] : i \in 1..Len(ClassSeq)}
Decl(c) ==
    LET Find(ds) == ds[CHOOSE i \in 1..Len(ds) : ds[i].name = c]
    IN  Find(Declared)

\* Attribute lookup along the bases (every class has a single base).
RECURSIVE ClassAttr(_, _)
ClassAttr(c, a) ==
    LET Look(d) == IF d[a] # <<>> THEN d[a] ELSE ClassAttr(d.base, a)
    IN  IF c = "object" THEN <<>> ELSE Look(Decl(c))

\* The class along the bases of c whose body defines method m ("object" if none).
RECURSIVE MethodOwner(_, _)
MethodOwner(c, m) ==
    LET Look(d) == IF m \in d.methods THEN c ELSE MethodOwner(d.base, m)
    IN  IF c = "object" THEN "object" ELSE Look(Decl(c))

RESPOND(c) == ClassAttr(c, "RESPOND")[1]

\* MetaPkt.__new__: the nested class In / Out takes KWARGS, decode and encode
\* from the nest's IN_ / OUT_ attributes.
KWARGS(c, dir) == ClassAttr(c, IF dir = "In" THEN "IN_KWARGS" ELSE "OUT_KWARGS")[1]
DecodeOwner(c, dir) == MethodOwner(c, IF dir = "In" THEN "in_decode" ELSE "out_decode")
EncodeOwner(c, dir) == MethodOwner(c, IF dir = "In" THEN "in_encode" ELSE "out_encode")

\* hasattr(cls, "PROTO") and cls.PROTO, given the PROTO class attributes `cp`
\* (class name -> <<>> or <<number>>).
RECURSIVE ProtoAttr(_, _)
ProtoAttr(cp, c) ==
    IF c = "object" THEN <<>>
    ELSE IF cp[c] # <<>> THEN cp[c]
    ELSE ProtoAttr(cp, Decl(c).base)

\* The PROTO class attributes as the class bodies set them.
DeclaredPROTO ==
    LET Of(ds) == [c \in {ds[i].name : i \in 1..Len(ds)} |->
                     ds[CHOOSE i \in 1..Len(ds) : ds[i].name = c].PROTO]
    IN  Of(Declared)

\* The module-level loop that fills CLASSES and PROTOS: every class whose name
\* does not start with "_" and that has a PROTO, in order of definition.
Registrable(cp) ==
    SelectSeq(ClassSeq, LAMBDA c : NameChars(c)[1] # 95 /\ ProtoAttr(cp, c) # <<>>)

RECURSIVE BuildCLASSES(_, _)
BuildCLASSES(cp, cs) ==
    IF cs = <<>> THEN <<>>
    ELSE (ProtoAttr(cp, cs[Len(cs)])[1] :> cs[Len(cs)])
           @@ BuildCLASSES(cp, SubSeq(cs, 1, Len(cs) - 1))

\* PROTOS is a dict in insertion order: a sequence of <<name, proto>> items
\* (the class names are distinct, so no item is ever overwritten).
BuildPROTOS(cp, cs) == [i \in 1..Len(cs) |-> <<cs[i], ProtoAttr(cp, cs[i])[1]>>]

(***************************************************************************)
(* Objects.  An object is [cls, dir, attrs]: its nest class, the nested    *)
(* class it instantiates ("In" or "Out") and its instance attributes.      *)
(***************************************************************************)
NoAttrs == [a \in {} |-> 0]

\* GPS303Pkt.__init__ called with keyword arguments only: every declared
\* parameter is coerced in order, then any argument left over is rejected.
RECURSIVE InitKwargs(_, _, _)
InitKwargs(kws, kwargs, attrs) ==
    LET \* setattr(self, kw, typ(kwargs.pop(kw, dfl))) for the triple kwd, then the rest
        Set(kw, r) ==
            IF IsRaise(r) THEN r
            ELSE InitKwargs(Tail(kws),
                            [k \in DOMAIN kwargs \ {kw} |-> kwargs[k]],
                            (kw :> r.v) @@ attrs)
        Pop(kwd) ==
            Set(kwd[1], Coerce(kwd[2], IF kwd[1] \in DOMAIN kwargs THEN kwargs[kwd[1]]
                                       ELSE kwd[3]))
    IN  IF kws = <<>>
        THEN IF DOMAIN kwargs # {} THEN Raise("ValueError") ELSE Val(attrs)
        ELSE Pop(Head(kws))

\* cls.Out(**kwargs) / cls.In(**kwargs)
Construct(c, dir, kwargs) ==
    LET Made(r) ==
            IF IsRaise(r) THEN r
            ELSE [kind |-> "obj", obj |-> [cls |-> c, dir |-> dir, attrs |-> r.v]]
    IN  Made(InitKwargs(KWARGS(c, dir), kwargs, NoAttrs))

(***************************************************************************)
(* struct.pack and bytes helpers.  An encoder yields Bytes(b) or Raise(e). *)
(***************************************************************************)
Bytes(b) == [kind |-> "bytes", val |-> b]

\* pack("B", x)
PackB(x) ==
    IF x.t = "int" /\ x.v >= 0 /\ x.v <= 255 THEN Bytes(<<x.v>>) ELSE Raise("error")

\* pack("!H", x)
PackH(x) ==
    IF x.t = "int" /\ x.v >= 0 /\ x.v <= 65535
    THEN Bytes(<<x.v \div 256, x.v % 256>>)
    ELSE Raise("error")

\* pack("!I", x)[1:]
\* (the upper limit 2^32 is beyond every integer of the model)
pack3b(x) ==
    IF x.t = "int" /\ x.v >= 0
    THEN Bytes(<<(x.v \div 65536) % 256, (x.v \div 256) % 256, x.v % 256>>)
    ELSE Raise("error")

\* Parts evaluated left to right and concatenated; the first exception wins.
RECURSIVE Cat(_)
Cat(parts) ==
    LET Join(first, rest) == IF IsRaise(rest) THEN rest ELSE Bytes(first.val \o rest.val)
    IN  IF parts = <<>> THEN Bytes(<<>>)
        ELSE IF IsRaise(Head(parts)) THEN Head(parts)
        ELSE Join(Head(parts), Cat(Tail(parts)))

IsHex(c) == DigitVal(c) < 16
\* Py_ISSPACE, the whitespace bytes.fromhex skips between bytes
IsHexSpace(c) == c \in {9, 10, 11, 12, 13, 32}

\* bytes.fromhex(s): whitespace between the bytes is skipped, each byte is
\* two adjacent hex digits.
RECURSIVE FromHex(_)
FromHex(s) ==
    IF s = <<>> THEN Bytes(<<>>)
    ELSE IF IsHexSpace(Head(s)) THEN FromHex(Tail(s))
    ELSE IF Len(s) >= 2 /\ IsHex(s[1]) /\ IsHex(s[2])
         THEN Cat(<<Bytes(<<DigitVal(s[1]) * 16 + DigitVal(s[2])>>), FromHex(SliceFrom(s, 2))>>)
         ELSE Raise("ValueError")

\* The UTF-8 bytes of one code point (no surrogates occur in the model).
Utf8Char(c) ==
    IF c < 128 THEN <<c>>
    ELSE IF c < 2048 THEN <<192 + (c \div 64), 128 + (c % 64)>>
    ELSE IF c < 65536 THEN <<224 + (c \div 4096), 128 + ((c \div 64) % 64), 128 + (c % 64)>>
    ELSE <<240 + (c \div 262144), 128 + ((c \div 4096) % 64),
           128 + ((c \div 64) % 64), 128 + (c % 64)>>

\* str.encode()
StrEncode(s) == Bytes(Concat([i \in 1..Len(s) |-> Utf8Char(s[i])]))

\* Two decimal digits of n, as strftime("%y"), ("%m"), ... give them.
TwoDigits(n) == <<48 + ((n \div 10) % 10), 48 + (n % 10)>>

\* "{:+#010.8g}".format(x) for a float x of at most 8 significant digits.
FormatG8(d) ==
    LET zeros(n) == [i \in 1..n |-> 48]
        TwoOrMore(ax) == IF ax < 10 THEN <<48>> \o NatDigits(ax) ELSE NatDigits(ax)
        Padded(body) ==
            (IF d.neg THEN <<45>> ELSE <<43>>) \o zeros(Max(0, 10 - 1 - Len(body))) \o body
        \* sig: the 8 significant digits;  X: the decimal exponent
        Body(sig, X) ==
            Padded(IF d.digs = 0 THEN <<48, 46>> \o zeros(7)
                   ELSE IF X >= 0 /\ X < 8
                        THEN SubSeq(sig, 1, X + 1) \o <<46>> \o SubSeq(sig, X + 2, 8)
                   ELSE IF X < 0 /\ X >= -4
                        THEN <<48, 46>> \o zeros(0 - X - 1) \o sig
                   ELSE <<sig[1], 46>> \o SubSeq(sig, 2, 8) \o <<101>>
                        \o (IF X < 0 THEN <<45>> ELSE <<43>>)
                        \o TwoOrMore(IF X < 0 THEN 0 - X ELSE X))
        Digits(digs) == Body(digs \o zeros(8 - Len(digs)), Len(digs) - 1 + d.exp)
    IN  Digits(NatDigits(d.digs))

(***************************************************************************)
(* The out_encode methods, by the class whose body defines them.  `self`   *)
(* is the object, `now` is datetime.utcnow() as <<Y, M, D, h, m, s>>.      *)
(***************************************************************************)
out_encode(owner, self, now) ==
    CASE owner = "GPS303Pkt" -> Bytes(<<>>)
      [] owner = "SUPERVISION" -> PackB(self.attrs["status"])
      [] owner = "_GPS_POSITIONING" ->
            Cat([i \in 1..6 |-> PackB(PyInt(IF i = 1 THEN now[1] % 100 ELSE now[i]))])
      [] owner = "STATUS" -> PackB(self.attrs["upload_interval"])
         \* `number` is looked up as a global and is not one
      [] owner = "WHITELIST_TOTAL" -> Raise("NameError")
      [] owner = "WIFI_OFFLINE_POSITIONING" ->
            FromHex(Concat([i \in 1..6 |-> TwoDigits(now[i])]))
      [] owner = "TIME" ->
            Cat(<<PackH(PyInt(now[1]))>> \o [i \in 1..5 |-> PackB(PyInt(now[i + 1]))])
      [] owner = "PROHIBIT_LBS" -> PackB(self.attrs["status"])
      [] owner = "GPS_LBS_SWITCH_TIMES" -> Bytes(<<>>)
      [] owner = "_SET_PHONE" -> StrEncode(self.attrs["phone"].v)
      [] owner = "GPS_OFF_PERIOD" ->
            Cat(<<PackB(self.attrs["onoff"]),
                  FromHex(self.attrs["fm"].v),
                  FromHex(self.attrs["to"].v)>>)
      [] owner = "RESTART_SHUTDOWN" -> PackB(self.attrs["flag"])
      [] owner = "DEVICE" -> PackB(self.attrs["flag"])
         \* cls("B", day): `cls` is the module global left by the registry loop,
         \* a nest class, which has no `decode` for __init__ to call
      [] owner = "ALARM_CLOCK" -> Raise("AttributeError")
      [] owner = "SETUP" ->
            Cat(<<PackH(self.attrs["uploadintervalseconds"]),
                  PackB(self.attrs["binaryswitch"])>>
                \o [i \in 1..3 |-> pack3b(self.attrs["alarms"].v[i])]
                \o <<PackB(self.attrs["dndtimeswitch"])>>
                \o [i \in 1..3 |-> pack3b(self.attrs["dndtimes"].v[i])]
                \o <<PackB(self.attrs["gpstimeswitch"]),
                     PackH(self.attrs["gpstimestart"]),
                     PackH(self.attrs["gpstimestop"]),
                     StrEncode(self.attrs["phonenumbers"].v[1].v \o <<59>>
                                 \o self.attrs["phonenumbers"].v[2].v \o <<59>>
                                 \o self.attrs["phonenumbers"].v[3].v)>>)
      [] owner = "WIFI_POSITIONING" ->
            IF self.attrs["latitude"].t = "None" \/ self.attrs["longitude"].t = "None"
            THEN Bytes(<<>>)
            ELSE StrEncode(FormatG8(self.attrs["latitude"].v) \o <<44>>
                             \o FormatG8(self.attrs["longitude"].v))
         \* `interval` is looked up as a global and is not one
      [] owner = "POSITION_UPLOAD_INTERVAL" -> Raise("NameError")

\* GPS303Pkt.in_encode
in_encode(self) == Raise("NotImplementedError")

\* self.encode()
encode(self, now) ==
    IF self.dir = "In" THEN in_encode(self)
    ELSE out_encode(EncodeOwner(self.cls, "Out"), self, now)

\* self.PROTO: the instance attribute if there is one, else the class attribute.
ObjPROTO(cp, self) ==
    IF "PROTO" \in DOMAIN self.attrs THEN self.attrs["PROTO"] ELSE ProtoAttr(cp, self.cls)[1]

\* GPS303Pkt.packed
packed(cp, self, now) ==
    LET Envelope(length, proto, payload) ==
            IF length > 255 \/ proto < 0 \/ proto > 255 THEN Raise("error")
            ELSE Bytes(<<length, proto>> \o payload)
        Encoded(payload) ==
            IF IsRaise(payload) THEN payload
            ELSE Envelope(Len(payload.val) + 1, ObjPROTO(cp, self), payload.val)
    IN  Encoded(encode(self, now))

(***************************************************************************)
(* Decoding helpers.                                                       *)
(***************************************************************************)
HexDigit(n) == IF n < 10 THEN 48 + n ELSE 87 + n          \* lower case
HexDigitUpper(n) == IF n < 10 THEN 48 + n ELSE 55 + n

\* bytes.hex()
Hex(b) == Concat([i \in 1..Len(b) |-> <<HexDigit(b[i] \div 16), HexDigit(b[i] % 16)>>])

IsLeap(y) == (y % 4 = 0 /\ y % 100 # 0) \/ y % 400 = 0
DaysIn(y, m) ==
    IF m = 2 THEN (IF IsLeap(y) THEN 29 ELSE 28)
    ELSE IF m \in {4, 6, 9, 11} THEN 30 ELSE 31

\* Whether datetime(y, mo, d, h, mi, s) is accepted (fields are >= 0).
ValidDateTime(y, mo, d, h, mi, s) ==
    /\ y >= 1 /\ y <= 9999
    /\ mo >= 1 /\ mo <= 12
    /\ d >= 1 /\ d <= DaysIn(y, mo)
    /\ h <= 23 /\ mi <= 59 /\ s <= 59

IsCont(b) == b >= 128 /\ b <= 191

\* bytes.decode() (UTF-8, strict): [ok, v], v the code points.
RECURSIVE Utf8Decode(_)
Utf8Decode(b) ==
    LET \* the length of the sequence that starts with byte b1, or 0
        SeqLen(b1) == IF b1 < 128 THEN 1
                      ELSE IF b1 >= 194 /\ b1 <= 223 THEN 2
                      ELSE IF b1 >= 224 /\ b1 <= 239 THEN 3
                      ELSE IF b1 >= 240 /\ b1 <= 244 THEN 4
                      ELSE 0
        Lo2(b1) == IF b1 = 224 THEN 160 ELSE IF b1 = 240 THEN 144 ELSE 128
        Hi2(b1) == IF b1 = 237 THEN 159 ELSE IF b1 = 244 THEN 143 ELSE 191
        CodePoint(n) ==
            CASE n = 1 -> b[1]
              [] n = 2 -> (b[1] - 192) * 64 + (b[2] - 128)
              [] n = 3 -> (b[1] - 224) * 4096 + (b[2] - 128) * 64 + (b[3] - 128)
              [] n = 4 -> (b[1] - 240) * 262144 + (b[2] - 128) * 4096
                          + (b[3] - 128) * 64 + (b[4] - 128)
        Prepend(cp, rest) ==
            IF rest.ok THEN [ok |-> TRUE, v |-> <<cp>> \o rest.v]
            ELSE [ok |-> FALSE, v |-> <<>>]
        First(n) ==
            IF /\ n > 0 /\ Len(b) >= n
               /\ n >= 2 => (b[2] >= Lo2(b[1]) /\ b[2] <= Hi2(b[1]))
               /\ \A i \in 3..n : IsCont(b[i])
            THEN Prepend(CodePoint(n), Utf8Decode(SliceFrom(b, n)))
            ELSE [ok |-> FALSE, v |-> <<>>]
    IN  IF b = <<>> THEN [ok |-> TRUE, v |-> <<>>] ELSE First(SeqLen(b[1]))

(***************************************************************************)
(* datetime.strptime(s, "%y%m%d%H%M%S").  The format compiles to a regular *)
(* expression of six groups, each trying its two-character alternatives    *)
(* before its one-character one; the match found first must consume the    *)
(* whole of s.                                                             *)
(***************************************************************************)
\* Whether field f (1..6 = y m d H M S) matches the n characters of s at pos.
StrpFieldOk(f, s, pos, n) ==
    LET InRange(v) ==
            IF n = 2
            THEN CASE f = 1 -> TRUE
                   [] f = 2 -> v >= 1 /\ v <= 12
                   [] f = 3 -> v >= 1 /\ v <= 31
                   [] f = 4 -> v <= 23
                   [] f = 5 -> v <= 59
                   [] f = 6 -> v <= 61
            ELSE CASE f = 1 -> FALSE
                   [] f \in {2, 3} -> v >= 1
                   [] OTHER -> TRUE
    IN  /\ pos + n - 1 <= Len(s)
        /\ \A i \in pos..(pos + n - 1) : IsDigit(s[i])
        /\ InRange(DigitsValue(SubSeq(s, pos, pos + n - 1), 10, 0))

\* The field widths of the first match of fields f..6 at pos, or <<0>> if none.
RECURSIVE StrpMatch(_, _, _)
StrpMatch(f, s, pos) ==
    LET Try(n) == IF StrpFieldOk(f, s, pos, n) THEN StrpMatch(f + 1, s, pos + n) ELSE <<0>>
        OneElse(one) == IF one # <<0>> THEN <<1>> \o one ELSE <<0>>
        TwoElse(two) == IF two # <<0>> THEN <<2>> \o two ELSE OneElse(Try(1))
    IN  IF f > 6 THEN <<>> ELSE TwoElse(Try(2))

RECURSIVE SumSeq(_)
SumSeq(s) == IF s = <<>> THEN 0 ELSE Head(s) + SumSeq(Tail(s))

\* The parsed <<year, month, day, hour, minute, second>>, or ValueError.
Strptime(s) ==
    LET Checked(t) ==
            IF ValidDateTime(t[1], t[2], t[3], t[4], t[5], t[6]) THEN Val(t)
            ELSE Raise("ValueError")
        Century(fld) ==
            Checked([f \in 1..6 |->
                       IF f > 1 THEN fld[f]
                       ELSE IF fld[1] < 69 THEN 2000 + fld[1] ELSE 1900 + fld[1]])
        \* w: the widths of the six fields;  at: where each field starts
        Fields(w, at) ==
            Century([f \in 1..6 |-> DigitsValue(SubSeq(s, at[f], at[f] + w[f] - 1), 10, 0)])
        Matched(w) ==
            IF w = <<0>> \/ SumSeq(w) # Len(s) THEN Raise("ValueError")
            ELSE Fields(w, [f \in 1..6 |-> 1 + SumSeq(SubSeq(w, 1, f - 1))])
    IN  Matched(StrpMatch(1, s, 1))

Zeros6 == <<0, 0, 0, 0, 0, 0>>
BE16(b, i) == b[i] * 256 + b[i + 1]                      \* unpack "!H" at index i
\* unpack "!I" at index i, as its two 16-bit halves <<high, low>>
BE32(b, i) == <<BE16(b, i), BE16(b, i + 2)>>
BitSet(x, mask) == (x \div mask) % 2 = 1                   \* mask is a power of 2

\* A coordinate decoded without its sign flag.
Coord_Unsigned(raw, flip) == [neg |-> FALSE, num |-> raw, den |-> 30000 * 60]

\* A decoded coordinate: raw / (30000 * 60) * (-1 if flip else 1), raw being
\* the unsigned 32-bit field as <<high half, low half>>.
Coord(raw, flip) == [neg |-> flip, num |-> raw, den |-> 30000 * 60]

MacStr(b) ==
    LET two(x) == <<HexDigitUpper(x \div 16), HexDigitUpper(x % 16)>>
    IN  Concat([i \in 1..Len(b) |-> IF i = 1 THEN two(b[i]) ELSE <<58>> \o two(b[i])])

ManualReason(flag) ==
    CASE flag = <<1>> -> "Incorrect time"
      [] flag = <<2>> -> "LBS less"
      [] flag = <<3>> -> "WiFi less"
      [] flag = <<4>> -> "LBS search > 3 times"
      [] flag = <<5>> -> "Same LBS and WiFi data"
      [] flag = <<6>> -> "LBS prohibited, WiFi absent"
      [] flag = <<7>> -> "GPS spacing < 50 m"
      [] OTHER -> "Unknown"

(***************************************************************************)
(* The decode methods, by the class whose body defines them.  Each yields  *)
(* Val(the attributes it sets) or Raise(the exception it ends with).       *)
(* An absent value (None) is <<>>, a present one <<v>>.                    *)
(***************************************************************************)
LOGIN_in_decode(length, payload) ==
    IF payload = <<>> THEN Raise("error")     \* unpack("B", b"")
    ELSE Val([imei |-> Hex(SubSeq(payload, 1, Len(payload) - 1)),
              ver |-> payload[Len(payload)]])

GPS_in_decode(length, payload) ==
    LET dtime == Slice(payload, 0, 6)
        fix == Slice(payload, 7, 18)
        flags == BE16(fix, 10)
    IN  IF dtime # Zeros6 /\ Len(dtime) # 6 THEN Raise("error")
        ELSE IF dtime # Zeros6
                /\ ~ValidDateTime(2000 + dtime[1], dtime[2], dtime[3],
                                  dtime[4], dtime[5], dtime[6])
             THEN Raise("ValueError")
        ELSE IF Len(payload) <= 6 THEN Raise("IndexError")
        ELSE IF Len(fix) # 11 THEN Raise("error")
        ELSE Val([dtime |-> dtime,
                  devtime |-> IF dtime = Zeros6 THEN <<>>
                              ELSE <<<<2000 + dtime[1], dtime[2], dtime[3],
                                       dtime[4], dtime[5], dtime[6]>>>>,
                  gps_data_length |-> payload[7] \div 16,
                  gps_nb_sat |-> payload[7] % 16,
                  gps_is_valid |-> BitSet(flags, 4096),
                  heading |-> flags % 1024,
                  latitude |-> Coord(BE32(fix, 1), ~BitSet(flags, 1024)),
                  longitude |-> Coord(BE32(fix, 5), BitSet(flags, 2048)),
                  speed |-> fix[9],
                  flags |-> flags])

STATUS_in_decode(length, payload) ==
    IF Len(payload) < 4 THEN Raise("error")
    ELSE Val([batt |-> payload[1], ver |-> payload[2],
              timezone |-> payload[3], intvl |-> payload[4],
              signal |-> IF Len(payload) > 4 THEN <<payload[5]>> ELSE <<>>])

WIFI_in_decode(length, payload) ==
    LET ap(i) == Slice(payload, 6 + (i - 1) * 7, 13 + (i - 1) * 7)
        Cells(dtime, devtime, gsm_slice, cell) ==
            IF \E i \in 1..Len(cell) : Len(cell[i]) < 5 THEN Raise("error")
            ELSE Val([dtime |-> dtime,
                      devtime |-> IF dtime = Zeros6 THEN <<>> ELSE <<devtime.v>>,
                      wifi_aps |-> [i \in 1..length |->
                                       <<MacStr(SubSeq(ap(i), 1, 6)), 0 - ap(i)[7]>>],
                      mcc |-> BE16(gsm_slice, 2),
                      mnc |-> gsm_slice[4],
                      gsm_cells |-> [i \in 1..Len(cell) |->
                                        <<BE16(cell[i], 1), BE16(cell[i], 3), 0 - cell[i][5]>>]])
        Gsm(dtime, devtime, gsm_slice) ==
            IF Len(gsm_slice) < 4 THEN Raise("error")
            ELSE Cells(dtime, devtime, gsm_slice,
                       [i \in 1..gsm_slice[1] |->
                          Slice(gsm_slice, 4 + (i - 1) * 5, 9 + (i - 1) * 5)])
        Aps(dtime, devtime) ==
            IF IsRaise(devtime) THEN devtime
            ELSE IF \E i \in 1..length : Len(ap(i)) < 7 THEN Raise("IndexError")
            ELSE Gsm(dtime, devtime, SliceFrom(payload, 6 + length * 7))
        Timed(dtime) ==
            Aps(dtime, IF dtime = Zeros6 THEN Val(<<>>) ELSE Strptime(Hex(dtime)))
    IN  Timed(Slice(payload, 0, 6))

WIFI_POSITIONING_out_decode(length, payload) ==
    LET Floats(lat, lon) ==
            IF ~lat.ok \/ ~lon.ok THEN Raise("ValueError")
            ELSE Val([latitude |-> lat.v, longitude |-> lon.v])
        Parts(parts) ==
            IF Len(parts) # 2 THEN Raise("ValueError")
            ELSE Floats(FloatParse(parts[1]), FloatParse(parts[2]))
        Text(text) ==
            IF ~text.ok THEN Raise("UnicodeDecodeError") ELSE Parts(Split(text.v, 44))
    IN  Text(Utf8Decode(payload))

STOP_ALARM_in_decode(length, payload) ==
    IF payload = <<>> THEN Raise("IndexError") ELSE Val([flag |-> payload[1]])

MANUAL_POSITIONING_in_decode(length, payload) ==
    LET flag == IF Len(payload) > 0 THEN <<payload[1]>> ELSE <<>>
    IN  Val([flag |-> flag, reason |-> ManualReason(flag)])

POSITION_UPLOAD_INTERVAL_in_decode(length, payload) ==
    IF Len(payload) < 2 THEN Raise("error")
    ELSE Val([interval |-> <<BE16(payload, 1)>>])      \* the 1-tuple unpack returns

UNKNOWN_B3_in_decode(length, payload) ==
    LET Text(text) ==
            IF text.ok THEN Val([asciidata |-> text.v]) ELSE Raise("UnicodeDecodeError")
    IN  Text(Utf8Decode(payload))

\* The decode method defined in the body of class `owner`.
decode_of(owner, dir, length, payload) ==
    CASE dir = "In" /\ owner = "LOGIN" -> LOGIN_in_decode(length, payload)
      [] dir = "In" /\ owner = "_GPS_POSITIONING" -> GPS_in_decode(length, payload)
      [] dir = "In" /\ owner = "STATUS" -> STATUS_in_decode(length, payload)
      [] dir = "In" /\ owner = "_WIFI_POSITIONING" -> WIFI_in_decode(length, payload)
      [] dir = "In" /\ owner = "STOP_ALARM" -> STOP_ALARM_in_decode(length, payload)
      [] dir = "In" /\ owner = "MANUAL_POSITIONING" ->
            MANUAL_POSITIONING_in_decode(length, payload)
      [] dir = "In" /\ owner = "POSITION_UPLOAD_INTERVAL" ->
            POSITION_UPLOAD_INTERVAL_in_decode(length, payload)
      [] dir = "In" /\ owner = "UNKNOWN_B3" -> UNKNOWN_B3_in_decode(length, payload)
      [] dir = "Out" /\ owner = "WIFI_POSITIONING" ->
            WIFI_POSITIONING_out_decode(length, payload)
      [] OTHER -> Val(NoAttrs)       \* GPS303Pkt.in_decode / out_decode

\* self.decode(length, payload) of the nested class c.In / c.Out
decode(c, dir, length, payload) == decode_of(DecodeOwner(c, dir), dir, length, payload)

\* GPS303Pkt.__init__ called with (length, payload): struct.error becomes
\* DecodeError, any other exception passes through.
InitArgs(c, dir, length, payload) ==
    LET Decoded(d) ==
            IF IsRaise(d)
            THEN (IF d.exc = "error" THEN Raise("DecodeError") ELSE d)
            ELSE [kind |-> "obj",
                  obj |-> [cls |-> c, dir |-> dir,
                           attrs |-> d.v @@ [length |-> length, payload |-> payload]]]
    IN  Decoded(decode(c, dir, length, payload))

\* Variant: the override is left out, the object keeps the class's PROTO.
SetPROTO_Omitted(cp, obj, proto) == [obj |-> obj, cp |-> cp]

\* Variant: the assignment lands on the class UNKNOWN instead of the object.
SetPROTO_OnClass(cp, obj, proto) ==
    [obj |-> obj, cp |-> [cp EXCEPT !["UNKNOWN"] = <<proto>>]]

\* retobj.PROTO = proto: the assignment lands on the object, the class
\* attributes `cp` stay as they are.  Yields the object and the class attributes.
SetPROTO(cp, obj, proto) ==
    [obj |-> [obj EXCEPT !.attrs = ("PROTO" :> proto) @@ obj.attrs], cp |-> cp]

\* parse_message(packet, is_incoming) under the registry `classes` and the
\* PROTO class attributes `cp`.  Yields [ret, cp]: what the call returns or
\* raises, and the PROTO class attributes after it.
parse_message(classes, cp, packet, is_incoming) ==
    LET dir == IF is_incoming THEN "In" ELSE "Out"
        WithCause(set, cause) ==
            [ret |-> [kind |-> "obj",
                      obj |-> [set.obj EXCEPT !.attrs = ("cause" :> cause) @@ set.obj.attrs]],
             cp |-> set.cp]
        Unknown(retobj, cause) == WithCause(SetPROTO(cp, retobj, packet[2]), cause)
        \* first: the outcome of CLASSES[proto].In / .Out, or the ValueError
        \* made for a proto that is not in CLASSES
        Fallback(first) ==
            IF packet[2] \in DOMAIN classes /\ first.kind = "obj"
            THEN [ret |-> first, cp |-> cp]
            ELSE IF packet[2] \in DOMAIN classes /\ first.exc # "DecodeError"
            THEN [ret |-> first, cp |-> cp]          \* not caught
            ELSE Unknown(InitArgs("UNKNOWN", dir, packet[1], SliceFrom(packet, 2)).obj,
                         first.exc)
    IN  IF Len(packet) < 2 THEN [ret |-> Raise("error"), cp |-> cp]   \* unpack("BB", ...)
        ELSE Fallback(IF packet[2] \notin DOMAIN classes THEN Raise("ValueError")
                      ELSE InitArgs(classes[packet[2]], dir, packet[1], SliceFrom(packet, 2)))

\* class_by_prefix(prefix) under the registry: the class when one name
\* matches, else the list of (name, proto) items that match.
Upper(s) == [i \in 1..Len(s) |-> IF s[i] >= 97 /\ s[i] <= 122 THEN s[i] - 32 ELSE s[i]]
StartsWith(s, p) == Len(p) <= Len(s) /\ SubSeq(s, 1, Len(p)) = p

\* The result of class_by_prefix for the list of matching items.
ClassOrList(classes, lst) ==
    IF Len(lst) # 1 THEN [kind |-> "list", val |-> lst]
    ELSE [kind |-> "class", val |-> classes[lst[1][2]]]

\* Variant: the prefix is compared as given, without upper-casing it.
class_by_prefix_AsGiven(classes, protos, prefix) ==
    ClassOrList(classes,
                SelectSeq(protos, LAMBDA it : StartsWith(Upper(NameChars(it[1])), prefix)))

class_by_prefix(classes, protos, prefix) ==
    ClassOrList(classes,
                SelectSeq(protos,
                          LAMBDA it : StartsWith(Upper(NameChars(it[1])), Upper(prefix))))

\* proto_by_name(name): PROTOS.get(name, -1)
proto_by_name(protos, name) ==
    IF \E i \in 1..Len(protos) : NameChars(protos[i][1]) = name
    THEN [kind |-> "int",
          val |-> protos[CHOOSE i \in 1..Len(protos) : NameChars(protos[i][1]) = name][2]]
    ELSE [kind |-> "int", val |-> -1]

\* proto_of_message(packet): unpack("B", packet[1:2])[0]
proto_of_message(packet) ==
    IF Len(packet) < 2 THEN Raise("error") ELSE [kind |-> "int", val |-> packet[2]]

\* Variant: the packet is parsed first and only a decoded message is answered.
inline_response_Decoding(classes, cp, packet, now) ==
    LET Answer(msg) ==
            IF IsRaise(msg) THEN msg
            ELSE IF msg.obj.cls # "UNKNOWN" /\ RESPOND(msg.obj.cls) = "INL"
                 THEN packed(cp, Construct(msg.obj.cls, "Out", NoAttrs).obj, now)
                 ELSE [kind |-> "none"]
    IN  Answer(parse_message(classes, cp, packet, TRUE).ret)

\* inline_response(packet), at time `now`
inline_response(classes, cp, packet, now) ==
    LET Built(o) == IF IsRaise(o) THEN o ELSE packed(cp, o.obj, now)
        Answer(proto) ==
            IF IsRaise(proto) THEN proto
            ELSE IF proto.val \in DOMAIN classes /\ RESPOND(classes[proto.val]) = "INL"
                 THEN Built(Construct(classes[proto.val], "Out", NoAttrs))
                 ELSE [kind |-> "none"]
    IN  Answer(proto_of_message(packet))

(***************************************************************************)
(* evstore.py.  A row of `events` is [tstamp, imei, peeraddr, proto,       *)
(* packet]; a NULL column is <<>>, a value v is <<v>>.                     *)
(***************************************************************************)
StowKeys == {"peeraddr", "when", "imei", "proto", "packet"}

\* The defaults stow() fills in for the keys the caller leaves out.
StowDefault(k) ==
    CASE k = "peeraddr" -> <<>>
      [] k = "when" -> <<0>>
      [] k = "imei" -> <<>>
      [] k = "proto" -> <<-1>>
      [] k = "packet" -> <<<<>>>>

\* The columns declared NOT NULL in SCHEMA.
NotNull == {"tstamp", "peeraddr", "proto"}

\* "insert or ignore": the row is skipped when it breaks a constraint of the
\* table.  SCHEMA declares NOT NULL constraints and no key or UNIQUE one.
InsertOrIgnore(rows, row) ==
    IF \E col \in NotNull : row[col] = <<>> THEN rows ELSE Append(rows, row)

\* stow(**kwargs) with the connection state db and the table rows.
\* Yields [ret, rows].
stow(db, rows, kwargs) ==
    LET parm(k) == IF k \in DOMAIN kwargs THEN kwargs[k] ELSE StowDefault(k)
    IN  IF db = "None" THEN [ret |-> Raise("AssertionError"), rows |-> rows]
        ELSE IF Cardinality(DOMAIN kwargs) > Cardinality(StowKeys)
             THEN [ret |-> Raise("AssertionError"), rows |-> rows]
             ELSE [ret |-> [kind |-> "none"],
                   rows |-> InsertOrIgnore(rows,
                                [tstamp |-> parm("when"), imei |-> parm("imei"),
                                 peeraddr |-> parm("peeraddr"), proto |-> parm("proto"),
                                 packet |-> parm("packet")])]

(***************************************************************************)
(* The inputs of the model.                                                *)
(***************************************************************************)
MaxPrefix == 8          \* longest prefix given to class_by_prefix

SampleBytes == {0, 1, 44, 49, 255}
SmallPayloads == SeqsUpTo(SampleBytes, MaxSmallPayload)

Prefixes(s) == {SubSeq(s, 1, n) : n \in 0..Len(s)}

\* Well-formed payloads and every prefix of them.
GpsPayload ==           \* 2022-04-27 13:05:09, 9 satellites, flags 0x1D2A
    <<22, 4, 27, 13, 5, 9, 201, 5, 151, 68, 128, 1, 43, 207, 32, 17, 29, 42>>
GpsBadDatePayload ==    \* month 13
    <<22, 13, 27, 13, 5, 9, 201, 5, 151, 68, 128, 1, 43, 207, 32, 17, 29, 42>>
GpsNoTimePayload ==
    Zeros6 \o <<201, 5, 151, 68, 128, 1, 43, 207, 32, 17, 4, 0>>
WifiPayload ==          \* BCD time, one access point, one GSM cell
    <<34, 4, 39, 19, 5, 9, 222, 173, 190, 239, 0, 1, 70,
      1, 1, 4, 1, 17, 34, 51, 68, 60>>
WifiShortTimePayload == <<34, 17, 17, 17>>
LoginPayload == <<3, 89, 51, 144, 117, 1, 130, 149, 1>>
StatusPayload == <<88, 1, 2, 10, 30>>
TextPayload == <<104, 195, 169, 33>>                 \* "hé!" in UTF-8
ReplyPayload ==         \* "+1.5000000,-120.25000"
    <<43, 49, 46, 53, 48, 48, 48, 48, 48, 48, 44, 45, 49, 50, 48, 46, 50, 53, 48, 48, 48>>

Payloads ==
    SmallPayloads \cup Prefixes(GpsPayload) \cup Prefixes(GpsBadDatePayload)
    \cup Prefixes(GpsNoTimePayload) \cup Prefixes(WifiPayload)
    \cup Prefixes(WifiShortTimePayload) \cup Prefixes(LoginPayload)
    \cup Prefixes(StatusPayload) \cup Prefixes(TextPayload) \cup Prefixes(ReplyPayload)

LengthBytes == {0, 1, 2}
\* Every proto of the catalogue that fits a byte, and some outside it.
ProtoBytes ==
    LET Registered(cp) == DOMAIN BuildCLASSES(cp, Registrable(cp))
    IN  (Registered(DeclaredPROTO) \cap 0..255) \cup {0, 127, 255}

Packets ==
    {<<>>, <<1>>} \cup {<<l, p>> \o pl : l \in LengthBytes, p \in ProtoBytes, pl \in Payloads}

\* GPS fixes: the 32-bit coordinate fields and the 16-bit flags field are
\* sampled at their ends and in between; the flags take every combination of
\* the validity bit and the two sign bits.
FixCoords == {<<0, 0, 0, 0>>, <<0, 0, 0, 1>>, <<5, 151, 68, 128>>, <<255, 255, 255, 255>>}
FixFlagsHigh == {h \in 0..255 : h % 4 \in {0, 3} /\ h \div 32 \in {0, 7}}
FixFlagsLow == {0, 1, 255}
FixProtos == {16, 17}
FixPackets ==
    {<<19, p, 22, 4, 27, 13, 5, 9, 201>> \o lat \o lon \o <<17, fh, fl>> :
        p \in FixProtos, lat \in FixCoords, lon \in FixCoords,
        fh \in FixFlagsHigh, fl \in FixFlagsLow}

\* datetime.utcnow() as <<year, month, day, hour, minute, second>>
Clocks == {<<2022, 4, 27, 13, 5, 9>>, <<2099, 12, 31, 23, 59, 59>>}

LowerStr(s) == [i \in 1..Len(s) |-> IF s[i] >= 65 /\ s[i] <= 90 THEN s[i] + 32 ELSE s[i]]

PrefixInputs ==
    LET Cased(exact) ==
            exact \cup {LowerStr(s) : s \in exact} \cup {Append(s, 120) : s \in exact}
        Heads(names) ==
            Cased(UNION {{SubSeq(s, 1, n) : n \in 0..Min(MaxPrefix, Len(s))} : s \in names})
    IN  Heads({NameChars(c) : c \in ClassNames})

NameInputs ==
    LET Cased(names) == names \cup {LowerStr(s) : s \in names} \cup {<<>>}
    IN  Cased({NameChars(c) : c \in ClassNames})

\* Keyword-argument values by the coercion of the parameter they are given to.
Str0000 == <<48, 48, 48, 48>>
ArgSamples(typ) ==
    CASE typ = "int" ->
            {PyInt(0), PyInt(255), PyInt(256), PyInt(-1), PyStr(<<55>>), PyNone}
      [] typ = "str" ->
            {PyStr(<<>>), PyStr(<<49, 50, 51>>), PyStr(<<233>>), PyInt(5),
             PyStr([i \in 1..254 |-> 49]), PyStr([i \in 1..255 |-> 49])}
      [] typ = "float" ->
            {PyNone, PyFloat(Dec(FALSE, 15, -1)), PyFloat(Dec(TRUE, 12025, -2)),
             PyFloat(Dec(FALSE, 5, -1)), PyInt(0), PyStr(<<49, 46, 53>>), PyStr(<<120>>)}
      [] typ = "hhmm" ->
            {PyStr(Str0000), PyStr(<<50, 51, 53, 57>>), PyStr(<<50, 52, 48, 48>>),
             PyStr(<<49, 50, 54, 48>>), PyStr(<<43, 49, 43, 50>>),
             PyStr(<<32, 49, 50, 32>>), PyStr(<<49, 50>>), PyStr(<<48, 97, 48, 48>>),
             PyInt(1200)}
      [] typ = "intx" ->
            {PyInt(768), PyInt(65536), PyStr(<<48, 120, 48, 51, 48, 48>>),
             PyStr(<<48, 49, 48>>), PyNone}
      [] typ = "l3int" ->
            {PyList(<<PyInt(0), PyInt(0), PyInt(0)>>), PyList(<<PyInt(1), PyInt(2)>>),
             PyStr(<<49, 44, 50, 44, 51>>), PyStr(<<49, 44, 97, 44, 51>>), PyInt(5),
             PyList(<<PyInt(1), PyInt(16777216), PyInt(-1)>>),
             PyList(<<PyInt(1), PyInt(16777216), PyInt(3)>>)}
      [] typ = "l3str" ->
            {PyList(<<PyStr(<<>>), PyStr(<<>>), PyStr(<<>>)>>),
             PyStr(<<49, 44, 50, 44, 51>>), PyStr(<<49, 44, 50>>),
             PyList(<<PyInt(1), PyInt(2), PyInt(3)>>), PyNone}
      [] typ = "stray" -> {PyInt(0)}

\* The keyword names a caller may give to c.Out(...): the declared ones and
\* one that no class declares.
KwTypes(c) ==
    LET Typed(kws) ==
            [k \in {kws[i][1] : i \in 1..Len(kws)} |->
                kws[CHOOSE i \in 1..Len(kws) : kws[i][1] = k][2]]
            @@ [k \in {"bogus"} |-> "stray"]
    IN  Typed(KWARGS(c, "Out"))

RECURSIVE KwargsOver(_, _)
\* every assignment of sample values to exactly the names in `names`
KwargsOver(types, names) ==
    IF names = {} THEN {NoAttrs}
    ELSE LET Given(k) == {(k :> v) @@ rest : v \in ArgSamples(types[k]),
                                             rest \in KwargsOver(types, names \ {k})}
         IN  Given(CHOOSE x \in names : TRUE)

KwargsInputs(c) ==
    LET Over(types) ==
            UNION {KwargsOver(types, names) :
                     names \in {S \in SUBSET DOMAIN types : Cardinality(S) <= MaxKwargs}}
    IN  Over(KwTypes(c))

StowInputs ==
    LET base == [proto |-> <<1>>, packet |-> <<<<1, 1>>>>]
        opt(k, v) == {NoAttrs, k :> v}
    IN  {a @@ b @@ c @@ base : a \in opt("peeraddr", <<"peer">>),
                                b \in opt("when", <<1>>),
                                c \in opt("imei", <<"imei">>)}
        \cup {NoAttrs,
              [peeraddr |-> <<"peer">>, when |-> <<1>>, imei |-> <<>>, proto |-> <<1>>,
               packet |-> <<<<>>>>, extra |-> <<0>>]}

(***************************************************************************)
(* The state machine.  A call is one step: it reads its arguments, runs to *)
(* its return or exception and leaves both in `args` and `ret`; the caller *)
(* then takes the result (Return).                                         *)
(***************************************************************************)
Registry == <<CLASSES, PROTOS, clsPROTO>>
Store == <<DB, events>>

Init ==
    /\ LET Loaded(cp, registered) ==
               /\ clsPROTO = cp
               /\ CLASSES = BuildCLASSES(cp, registered)
               /\ PROTOS = BuildPROTOS(cp, registered)
           Declare(cp) == Loaded(cp, Registrable(cp))
       IN  Declare(DeclaredPROTO)
    /\ DB = "None"
    /\ events = <<>>
    /\ op = "idle"
    /\ args = NoAttrs
    /\ ret = [kind |-> "none"]

ParseMessage ==
    /\ op = "idle"
    /\ \E packet \in Packets, is_incoming \in BOOLEAN :
         LET Done(r) ==
                 /\ op' = "parse_message"
                 /\ args' = [packet |-> packet, is_incoming |-> is_incoming]
                 /\ ret' = r.ret
                 /\ clsPROTO' = r.cp
         IN  Done(parse_message(CLASSES, clsPROTO, packet, is_incoming))
    /\ UNCHANGED <<CLASSES, PROTOS, Store>>

\* parse_message(packet, is_incoming) on a GPS fix
ParseFix ==
    /\ op = "idle"
    /\ \E packet \in FixPackets, is_incoming \in BOOLEAN :
         LET Done(r) ==
                 /\ op' = "parse_message"
                 /\ args' = [packet |-> packet, is_incoming |-> is_incoming]
                 /\ ret' = r.ret
                 /\ clsPROTO' = r.cp
         IN  Done(parse_message(CLASSES, clsPROTO, packet, is_incoming))
    /\ UNCHANGED <<CLASSES, PROTOS, Store>>

InlineResponse ==
    /\ op = "idle"
    /\ \E packet \in Packets, now \in Clocks :
         /\ op' = "inline_response"
         /\ args' = [packet |-> packet, now |-> now]
         /\ ret' = inline_response(CLASSES, clsPROTO, packet, now)
    /\ UNCHANGED <<Registry, Store>>

ClassByPrefix ==
    /\ op = "idle"
    /\ \E prefix \in PrefixInputs :
         /\ op' = "class_by_prefix"
         /\ args' = [prefix |-> prefix]
         /\ ret' = class_by_prefix(CLASSES, PROTOS, prefix)
    /\ UNCHANGED <<Registry, Store>>

ProtoByName ==
    /\ op = "idle"
    /\ \E name \in NameInputs :
         /\ op' = "proto_by_name"
         /\ args' = [name |-> name]
         /\ ret' = proto_by_name(PROTOS, name)
    /\ UNCHANGED <<Registry, Store>>

\* cls.Out(**kwargs) for a registered class
ConstructOut ==
    /\ op = "idle"
    /\ \E p \in DOMAIN CLASSES :
         \E kwargs \in KwargsInputs(CLASSES[p]) :
           /\ op' = "construct"
           /\ args' = [cls |-> CLASSES[p], kwargs |-> kwargs]
           /\ ret' = Construct(CLASSES[p], "Out", kwargs)
    /\ UNCHANGED <<Registry, Store>>

\* obj.packed on the object just constructed
Packed ==
    /\ op = "construct"
    /\ ret.kind = "obj"
    /\ \E now \in Clocks :
         /\ op' = "packed"
         /\ args' = [obj |-> ret.obj, kwargs |-> args.kwargs, now |-> now]
         /\ ret' = packed(clsPROTO, ret.obj, now)
    /\ UNCHANGED <<Registry, Store>>

\* initdb(dbname): the table is created if it does not exist yet
InitDb ==
    /\ op = "idle"
    /\ op' = "initdb"
    /\ args' = NoAttrs
    /\ ret' = [kind |-> "none"]
    /\ DB' = "open"
    /\ UNCHANGED <<Registry, events>>

Stow ==
    /\ op = "idle"
    /\ Len(events) < MaxRows
    /\ \E kwargs \in StowInputs :
         LET Done(r) ==
                 /\ op' = "stow"
                 /\ args' = [kwargs |-> kwargs]
                 /\ ret' = r.ret
                 /\ events' = r.rows
         IN  Done(stow(DB, events, kwargs))
    /\ UNCHANGED <<Registry, DB>>

Return ==
    /\ op # "idle"
    /\ op' = "idle"
    /\ args' = NoAttrs
    /\ ret' = [kind |-> "none"]
    /\ UNCHANGED <<Registry, Store>>

\* The codec's entry points for inbound traffic and operator tooling.
Next == ParseMessage \/ InlineResponse \/ ClassByPrefix \/ ProtoByName \/ Return
Spec == Init /\ [][Next]_vars

\* Building and serializing outbound messages.
NextOut == ConstructOut \/ Packed \/ Return
SpecOut == Init /\ [][NextOut]_vars

\* The event store.
NextStore == InitDb \/ Stow \/ Return
SpecStore == Init /\ [][NextStore]_vars

\* Decoding position fixes.
NextFix == ParseFix \/ Return
SpecFix == Init /\ [][NextFix]_vars

(***************************************************************************)
(* Properties.                                                             *)
(***************************************************************************)
\* The classes that are message kinds: those whose body sets a PROTO.
Kinds == {c \in ClassNames : Decl(c).PROTO # <<>>}

IsByteSeq(b) == \A i \in 1..Len(b) : b[i] \in 0..255

\* An envelope: the length byte counts the bytes after the 2-byte header,
\* plus 1.
WellFormedEnvelope(b) == Len(b) >= 2 /\ IsByteSeq(b) /\ b[1] = (Len(b) - 2) + 1

\* Two results of a call are the same.
SameResult(a, b) ==
    /\ a.kind = b.kind
    /\ a.kind = "bytes" => a.val = b.val
    /\ a.kind = "raise" => a.exc = b.exc

\* C1: parse_message never raises to its caller: for every buffer that has
\* its two header bytes, whatever the payload and the direction, the call
\* returns a message object; an UNKNOWN result carries the wire proto number,
\* the raw length and payload and a cause.
C1_ParseNeverRaises ==
    (op = "parse_message" /\ Len(args.packet) >= 2) =>
        /\ ret.kind = "obj"
        /\ ret.obj.cls = "UNKNOWN" =>
             /\ ObjPROTO(clsPROTO, ret.obj) = args.packet[2]
             /\ ret.obj.attrs["length"] = args.packet[1]
             /\ ret.obj.attrs["payload"] = SliceFrom(args.packet, 2)
             /\ "cause" \in DOMAIN ret.obj.attrs

\* C2: for a proto byte that is not in the catalogue, parse_message returns
\* without error an UNKNOWN object whose PROTO is the wire proto byte (not
\* the sentinel 256), whose payload is exactly the bytes after the 2-byte
\* header and whose length is the wire length byte.
C2_UnknownProtoPreserved ==
    (op = "parse_message" /\ Len(args.packet) >= 2
       /\ \A c \in Kinds : Decl(c).PROTO # <<args.packet[2]>>) =>
        /\ ret.kind = "obj"
        /\ ret.obj.cls = "UNKNOWN"
        /\ ObjPROTO(clsPROTO, ret.obj) = args.packet[2]
        /\ ObjPROTO(clsPROTO, ret.obj) # 256
        /\ Len(ret.obj.attrs["payload"]) = Len(args.packet) - 2
        /\ \A i \in 1..(Len(args.packet) - 2) :
             ret.obj.attrs["payload"][i] = args.packet[i + 2]
        /\ ret.obj.attrs["length"] = args.packet[1]

C2_Witness ==
    /\ op = "parse_message"
    /\ args.packet = <<2, 127, 1, 255>>
    /\ ret.kind = "obj"
    /\ ret.obj.cls = "UNKNOWN"
    /\ ret.obj.attrs["PROTO"] = 127
    /\ ret.obj.attrs["payload"] = <<1, 255>>

\* Payloads put in place of the packet's own when checking that
\* inline_response reads the proto byte only.
OtherPayloads == {<<>>, <<0>>, <<255, 255>>, LoginPayload, GpsPayload}

\* C3: inline_response depends on the packet's proto byte alone (and the
\* clock).  It returns the serialized all-default outbound variant of the
\* kind (first byte = payload length + 1, second byte = the proto byte)
\* exactly when the proto is in the catalogue with policy Inline, and None
\* for every other proto; packets with the same proto byte and another
\* length byte or payload give the same result; for Login and Heartbeat the
\* result is the envelope <<1, proto>>.
C3_InlineByProtoAlone ==
    (op = "inline_response" /\ Len(args.packet) >= 2) =>
        LET p == args.packet[2]
            inl == \E c \in Kinds : Decl(c).PROTO = <<p>> /\ RESPOND(c) = "INL"
        IN  /\ inl => /\ ret.kind = "bytes"
                      /\ WellFormedEnvelope(ret.val)
                      /\ ret.val[2] = p
                      /\ SameResult(ret, packed(clsPROTO,
                                                Construct(CLASSES[p], "Out", NoAttrs).obj,
                                                args.now))
            /\ ~inl => ret.kind = "none"
            /\ p \in {1, 8} => (ret.kind = "bytes" /\ ret.val = <<1, p>>)
            /\ \A l \in LengthBytes, pl \in OtherPayloads :
                 SameResult(ret, inline_response(CLASSES, clsPROTO, <<l, p>> \o pl, args.now))

C3_Witness ==
    /\ op = "inline_response"
    /\ args.packet = <<1, 1>> \o LoginPayload
    /\ ret.kind = "bytes"
    /\ ret.val = <<1, 1>>

\* C4: envelope invariant: every outbound message of a kind other than the
\* Wi-Fi positioning ones, built from accepted parameters, serializes to
\* bytes whose first byte is the number of bytes after the 2-byte header
\* plus 1 and whose second byte is the kind's proto number.
C4_EnvelopeInvariant ==
    (op = "packed"
       /\ args.obj.cls \notin {"WIFI_POSITIONING", "WIFI_OFFLINE_POSITIONING"}) =>
        /\ ret.kind = "bytes"
        /\ Len(ret.val) >= 2
        /\ ret.val[1] = (Len(ret.val) - 2) + 1
        /\ <<ret.val[2]>> = Decl(args.obj.cls).PROTO

\* The parameters of the scheduling kinds that hold a time of day.
TimeWindowFields(c) ==
    CASE c = "GPS_OFF_PERIOD" -> {"fm", "to"}
      [] c = "DND_PERIOD" -> {"fm1", "to1", "fm2", "to2"}
      [] OTHER -> {}

\* Exactly 4 ASCII digits, hours 00-23 and minutes 00-59.
IsFourDigitTime(x) ==
    /\ x.t = "str"
    /\ Len(x.v) = 4
    /\ \A i \in 1..4 : IsDigit(x.v[i])
    /\ (x.v[1] - 48) * 10 + (x.v[2] - 48) <= 23
    /\ (x.v[3] - 48) * 10 + (x.v[4] - 48) <= 59

\* C5: a time-window field is accepted at construction if and only if it is
\* a string of exactly 4 ASCII digits with hours 00-23 and minutes 00-59, so
\* that an accepted value converts to exactly 2 packed-decimal bytes without
\* error.
C5_TimeWindowValidation ==
    (op = "construct" /\ TimeWindowFields(args.cls) # {}) =>
        /\ ret.kind = "obj" =>
             \A f \in TimeWindowFields(args.cls) :
                /\ IsFourDigitTime(ret.obj.attrs[f])
                /\ FromHex(ret.obj.attrs[f].v).kind = "bytes"
                /\ Len(FromHex(ret.obj.attrs[f].v).val) = 2
        /\ (/\ DOMAIN args.kwargs \subseteq TimeWindowFields(args.cls)
            /\ \A f \in DOMAIN args.kwargs : IsFourDigitTime(args.kwargs[f]))
             => ret.kind = "obj"

\* C6: outbound parameters are validated eagerly: once construction of an
\* outbound message has succeeded, serializing it succeeds and yields a
\* well-formed envelope.
C6_ConstructedSerializes ==
    op = "packed" => (ret.kind = "bytes" /\ WellFormedEnvelope(ret.val))

\* C7: registry invariant, in every reachable state: the registry holds the
\* fixed catalogue, no two kinds share a proto number, every declared kind
\* is registered, and the kind found under a number p has PROTO = p (that of
\* UNKNOWN stays 256).
C7_RegistryInvariant ==
    /\ DOMAIN CLASSES = {Decl(c).PROTO[1] : c \in Kinds}
    /\ \A c \in Kinds : \E p \in DOMAIN CLASSES : CLASSES[p] = c
    /\ Cardinality({ProtoAttr(clsPROTO, c) : c \in Kinds}) = Cardinality(Kinds)
    /\ \A p \in DOMAIN CLASSES : ProtoAttr(clsPROTO, CLASSES[p]) = <<p>>
    /\ ProtoAttr(clsPROTO, "UNKNOWN") = <<256>>
    /\ Len(PROTOS) = Cardinality(Kinds)
    /\ \A i \in 1..Len(PROTOS) : CLASSES[PROTOS[i][2]] = PROTOS[i][1]

C7_Witness ==
    /\ op = "parse_message"
    /\ ret.kind = "obj"
    /\ ret.obj.cls = "UNKNOWN"
    /\ args.packet[2] = 255
    /\ ObjPROTO(clsPROTO, ret.obj) = 255
    /\ ProtoAttr(clsPROTO, "UNKNOWN") = <<256>>

\* The row stow() writes for the keyword arguments kw.
RowOf(kw) ==
    LET parm(k) == IF k \in DOMAIN kw THEN kw[k] ELSE StowDefault(k)
    IN  [tstamp |-> parm("when"), imei |-> parm("imei"), peeraddr |-> parm("peeraddr"),
         proto |-> parm("proto"), packet |-> parm("packet")]

\* C8: storing is idempotent: however often stow has been called with the
\* same (when, imei, peeraddr, proto, packet), the events table holds exactly
\* one row for that tuple.
C8_StowIdempotent ==
    (op = "stow" /\ ret.kind = "none"
       /\ {"when", "peeraddr", "proto", "packet"} \subseteq DOMAIN args.kwargs) =>
        Cardinality({i \in 1..Len(events) : events[i] = RowOf(args.kwargs)}) = 1

\* C9: the Wi-Fi positioning reply can be built without coordinates and then
\* serializes to the empty-payload envelope <<1, 0x69>>; with both
\* coordinates it serializes to the ASCII text "lat,lon".
C9_UnresolvedReply ==
    /\ (op = "construct" /\ args.cls = "WIFI_POSITIONING" /\ DOMAIN args.kwargs = {})
         => ret.kind = "obj"
    /\ (op = "packed" /\ args.obj.cls = "WIFI_POSITIONING") =>
         LET lat == args.obj.attrs["latitude"]
             lon == args.obj.attrs["longitude"]
         IN  /\ ret.kind = "bytes"
             /\ (lat.t = "None" /\ lon.t = "None") => ret.val = <<1, 105>>
             /\ (lat.t = "float" /\ lon.t = "float") =>
                  /\ ret.val[2] = 105
                  /\ SliceFrom(ret.val, 2) = FormatG8(lat.v) \o <<44>> \o FormatG8(lon.v)

\* Whether name starts with prefix, letter case aside.
StartsWithIgnoringCase(name, prefix) ==
    /\ Len(prefix) <= Len(name)
    /\ \A i \in 1..Len(prefix) : LowerStr(<<name[i]>>) = LowerStr(<<prefix[i]>>)

\* C10: class_by_prefix returns the kind when exactly one registered name
\* starts with the prefix, letter case aside; otherwise it returns the list
\* of all matching (name, proto) pairs: empty when none matches, every match
\* when several do.
C10_PrefixLookup ==
    op = "class_by_prefix" =>
        LET matches == {c \in Kinds : StartsWithIgnoringCase(NameChars(c), args.prefix)}
        IN  /\ Cardinality(matches) = 1 =>
                 (ret.kind = "class" /\ ret.val \in matches)
            /\ Cardinality(matches) # 1 =>
                 /\ ret.kind = "list"
                 /\ Len(ret.val) = Cardinality(matches)
                 /\ {ret.val[i][1] : i \in 1..Len(ret.val)} = matches
                 /\ \A i \in 1..Len(ret.val) : <<ret.val[i][2]>> = Decl(ret.val[i][1]).PROTO

C10_Witness ==
    /\ op = "class_by_prefix"
    /\ args.prefix = <<117, 110, 107, 110, 111, 119, 110>>       \* "unknown"
    /\ ret.kind = "list"
    /\ Len(ret.val) = 2

\* The fields of a GPS fix as they stand in the packet: the payload begins at
\* the third byte, latitude at payload[7:11], longitude at payload[11:15] and
\* the flags at payload[16:18].
FixClasses == {"GPS_POSITIONING", "GPS_OFFLINE_POSITIONING"}
WireLatitude(packet) ==
    <<packet[10] * 256 + packet[11], packet[12] * 256 + packet[13]>>
WireLongitude(packet) ==
    <<packet[14] * 256 + packet[15], packet[16] * 256 + packet[17]>>
WireFlags(packet) == packet[19] * 256 + packet[20]
WireBit(packet, mask) == (WireFlags(packet) \div mask) % 2 = 1
IsDecodedFix ==
    /\ op = "parse_message"
    /\ args.is_incoming
    /\ ret.kind = "obj"
    /\ ret.obj.cls \in FixClasses
    /\ "latitude" \in DOMAIN ret.obj.attrs

\* C11: in a decoded GPS fix the latitude is negative exactly when flag bit
\* 0x0400 is clear and the longitude is negative exactly when flag bit 0x0800
\* is set, each whatever the other bit is; the magnitude is the raw 32-bit
\* field over 30000*60, so a raw 0 decodes to 0 degrees; heading is the flags
\* modulo 1024 and lies in 0..1023; gps_is_valid is true exactly when bit
\* 0x1000 is set.
C11_FixFlagsDecode ==
    IsDecodedFix =>
        /\ ret.obj.attrs["latitude"].neg = ~WireBit(args.packet, 1024)
        /\ ret.obj.attrs["longitude"].neg = WireBit(args.packet, 2048)
        /\ ret.obj.attrs["latitude"].num = WireLatitude(args.packet)
        /\ ret.obj.attrs["longitude"].num = WireLongitude(args.packet)
        /\ ret.obj.attrs["latitude"].den = 1800000
        /\ ret.obj.attrs["longitude"].den = 1800000
        /\ (WireLatitude(args.packet) = <<0, 0>>
              => ret.obj.attrs["latitude"].num = <<0, 0>>)
        /\ (WireLongitude(args.packet) = <<0, 0>>
              => ret.obj.attrs["longitude"].num = <<0, 0>>)
        /\ ret.obj.attrs["heading"] = WireFlags(args.packet) % 1024
        /\ ret.obj.attrs["heading"] \in 0..1023
        /\ ret.obj.attrs["gps_is_valid"] = WireBit(args.packet, 4096)

\* A fix with both signs flipped (bit 0x0400 clear, bit 0x0800 set), a zero
\* latitude field and the validity bit clear.
C11_Witness ==
    /\ IsDecodedFix
    /\ args.packet = <<19, 16, 22, 4, 27, 13, 5, 9, 201, 0, 0, 0, 0,
                       255, 255, 255, 255, 17, 235, 255>>
    /\ ret.obj.attrs["latitude"] = [neg |-> TRUE, num |-> <<0, 0>>, den |-> 1800000]
    /\ ret.obj.attrs["longitude"]
         = [neg |-> TRUE, num |-> <<65535, 65535>>, den |-> 1800000]
    /\ ret.obj.attrs["heading"] = 1023
    /\ ~ret.obj.attrs["gps_is_valid"]

\* Four ASCII digits as two packed-decimal bytes: "2359" is 0x23 0x59.
PackedDecimal(x) ==
    <<(x.v[1] - 48) * 16 + (x.v[2] - 48), (x.v[3] - 48) * 16 + (x.v[4] - 48)>>

\* The payload a DND_PERIOD message is stated to have.
DndPayload(attrs) ==
    <<attrs["onoff"].v, attrs["week"].v>>
    \o PackedDecimal(attrs["fm1"]) \o PackedDecimal(attrs["to1"])
    \o PackedDecimal(attrs["fm2"]) \o PackedDecimal(attrs["to2"])

\* C12: a DND_PERIOD outbound message whose onoff and week fit a byte and
\* whose four time fields are 4-digit times serializes to the envelope bytes
\* 11, 0x47 followed by the 10-byte payload onoff, week, fm1, to1, fm2, to2
\* (the times as packed decimal), so that different parameters give
\* different bytes.
C12_DndPeriodPayload ==
    (/\ op = "packed"
     /\ args.obj.cls = "DND_PERIOD"
     /\ \A f \in {"onoff", "week"} :
           args.obj.attrs[f].t = "int" /\ args.obj.attrs[f].v \in 0..255
     /\ \A f \in TimeWindowFields("DND_PERIOD") : IsFourDigitTime(args.obj.attrs[f]))
        => /\ ret.kind = "bytes"
           /\ ret.val = <<11, 71>> \o DndPayload(args.obj.attrs)
====
